---- MODULE Spec2Model ----
(***************************************************************************)
(* Model of three-d-asset's raw asset store (src/io/raw_assets.rs) and of  *)
(* the extension dispatch of Deserialize (src/io/parser.rs).               *)
(*                                                                         *)
(* A path is a sequence of one-character strings.  The store is the        *)
(* HashMap<PathBuf, Vec<u8>> of RawAssets, kept as a set of <<key, bytes>> *)
(* entries.  Paths compare as on a Unix target, where '\' is an ordinary   *)
(* character; the path universe has no doubled or trailing separators, so  *)
(* Path equality coincides with equality of the strings.                   *)
(* HashMap iteration order is unspecified, so "the first key that          *)
(* contains p" is any key that contains p.                                 *)
(***************************************************************************)
EXTENDS Integers, Sequences, FiniteSets, TLC

VARIABLES store, last, prev, first, features

vars == <<store, last, prev, first, features>>

(* ---------------------------------------------------------------- bounds *)
MaxEntries == 2      \* entries the store may hold
MaxExtend == 2       \* length of the iterator given to extend
MaxByte == 2         \* byte buffers are abstracted to 1..MaxByte

Bytes == 1..MaxByte

(* ------------------------------------------------------------ the paths *)
BS == "\\"

P_a_obj == <<"a", ".", "o", "b", "j">>
P_d_a_obj == <<"d", "/", "a", ".", "o", "b", "j">>
P_d_bs_a_obj == <<"d", BS, "a", ".", "o", "b", "j">>
P_d_a_obj_glb == <<"d", "/", "a", ".", "o", "b", "j", ".", "g", "l", "b">>
P_x_jpg == <<"x", ".", "j", "p", "g">>
P_x_jpeg == <<"x", ".", "j", "p", "e", "g">>
P_u_unknown == <<"u", ".", "u", "n", "k", "n", "o", "w", "n">>

Paths ==
  {P_a_obj, P_d_a_obj, P_d_bs_a_obj, P_d_a_obj_glb, P_x_jpg, P_x_jpeg,
   P_u_unknown}

P_A_OBJ == <<"A", ".", "O", "B", "J">>
P_v_vol == <<"v", ".", "v", "o", "l">>
P_n == <<"n">>

\* the paths assets are inserted under before they are deserialized
DispatchPaths ==
  {P_d_a_obj, P_d_a_obj_glb, P_u_unknown, P_A_OBJ, P_v_vol, P_n}

\* the paths deserialize is called with
DispatchQueries == DispatchPaths \cup {P_a_obj}

\* the empty path, as in the doc comments' get("") and remove("")
P_empty == <<>>

\* the paths get and remove are called with
QueryPaths == Paths \cup {P_empty}

\* the (path, bytes) pairs an iterator given to extend may yield
ExtendPaths == {P_d_bs_a_obj, P_x_jpg}

(* --------------------------------------------------------- str functions *)
\* str::replace('\\', "/")
Replace(s) == [i \in 1..Len(s) |-> IF s[i] = BS THEN "/" ELSE s[i]]

\* str::ends_with
EndsWith(s, suf) ==
  /\ Len(suf) <= Len(s)
  /\ SubSeq(s, Len(s) - Len(suf) + 1, Len(s)) = suf

\* contains that finds no empty pattern
ContainsNonEmpty(k, p) ==
  /\ p # <<>>
  /\ \E i \in 0..(Len(k) - Len(p)) : SubSeq(k, i + 1, i + Len(p)) = p

\* str::contains
Contains(k, p) ==
  \E i \in 0..(Len(k) - Len(p)) : SubSeq(k, i + 1, i + Len(p)) = p

DotJpeg == <<".", "j", "p", "e", "g">>
DotJpg == <<".", "j", "p", "g">>

\* Pattern without the .jpeg/.jpg shortening
PatternNoAlias(path) == Replace(path)

\* the pattern match_path searches for: lines 67-74
Pattern(path) ==
  LET p == Replace(path)
  IN IF EndsWith(p, DotJpeg) THEN SubSeq(p, 1, Len(p) - 2)
     ELSE IF EndsWith(p, DotJpg) THEN SubSeq(p, 1, Len(p) - 1)
     ELSE p

(* --------------------------------------------------------------- HashMap *)
Keys(m) == {e[1] : e \in m}

ContainsKey(m, k) == k \in Keys(m)

\* HashMap::insert: the value of an equal key is replaced
HashMapInsert(m, k, v) == {e \in m : e[1] # k} \cup {<<k, v>>}

\* HashMap::get(k).unwrap(), for a key that is present
HashMapGet(m, k) == (CHOOSE e \in m : e[1] = k)[2]

\* a remove that leaves the entry in the map
HashMapRemoveKeeps(m, k) == m

\* a remove of every entry whose key contains k
HashMapRemoveContaining(m, k) == {e \in m : ~Contains(e[1], k)}

\* HashMap::remove
HashMapRemove(m, k) == {e \in m : e[1] # k}

RECURSIVE HashMapExtend(_, _)
\* HashMap::extend: inserts the pairs of the iterator in order, keys as given
HashMapExtend(m, entries) ==
  IF entries = <<>> THEN m
  ELSE HashMapExtend(HashMapInsert(m, Head(entries)[1], Head(entries)[2]),
                     Tail(entries))

(* ------------------------------------------------------------ RawAssets *)
NoPath == <<>>
NoBytes == 0

Ok(key) == [tag |-> "Ok", path |-> key]
NotLoaded(path) == [tag |-> "NotLoaded", path |-> path]

\* match_path with starts_with in place of contains
MatchPathPrefix(m, path) ==
  IF ContainsKey(m, path) THEN {Ok(path)}
  ELSE LET p == Pattern(path)
           found == {k \in Keys(m) :
                       Len(p) <= Len(k) /\ SubSeq(k, 1, Len(p)) = p}
       IN IF found = {} THEN {NotLoaded(path)}
          ELSE {Ok(k) : k \in found}

\* match_path that returns the pattern it searched for, not the key found
MatchPathReturnsPattern(m, path) ==
  IF ContainsKey(m, path) THEN {Ok(path)}
  ELSE IF \E k \in Keys(m) : Contains(k, Pattern(path))
  THEN {Ok(Pattern(path))}
  ELSE {NotLoaded(path)}

\* match_path whose error carries the pattern, not the path as given
MatchPathErrPattern(m, path) ==
  IF ContainsKey(m, path) THEN {Ok(path)}
  ELSE LET found == {k \in Keys(m) : Contains(k, Pattern(path))}
       IN IF found = {} THEN {NotLoaded(Pattern(path))}
          ELSE {Ok(k) : k \in found}

\* RawAssets::match_path: the set of results the call can return
MatchPath(m, path) ==
  IF ContainsKey(m, path) THEN {Ok(path)}
  ELSE LET found == {k \in Keys(m) : Contains(k, Pattern(path))}
       IN IF found = {} THEN {NotLoaded(path)}
          ELSE {Ok(k) : k \in found}

\* insert that stores under the path as given
InsertKeyRaw(path) == path

\* the key RawAssets::insert stores under: line 97
InsertKey(path) == Replace(path)

\* RawAssets::insert
InsertInto(m, path, bytes) == HashMapInsert(m, InsertKey(path), bytes)

\* <RawAssets as Extend>::extend
ExtendInto(m, entries) == HashMapExtend(m, entries)

(* ------------------------------------------------------------- the calls *)
\* a completed call: its arguments and what it returned
\* (tag: "Ok" or the Error variant; key: the path the result or the error
\* carries; out: the bytes returned; fmt: the format the dispatch names)
Call(op, path, bytes, entries, tag, key, out, fmt) ==
  [op |-> op, path |-> path, bytes |-> bytes, entries |-> entries,
   tag |-> tag, key |-> key, out |-> out, fmt |-> fmt]

NoCall == Call("none", NoPath, NoBytes, <<>>, "Ok", NoPath, NoBytes, "")

\* of the call before prev it is kept only whether it was an insert of the
\* path that prev was then called with, and with which bytes
Note(c, next) ==
  IF c.op = "insert" /\ c.path = next.path
  THEN Call("insert", c.path, c.bytes, <<>>, "Ok", NoPath, NoBytes, "")
  ELSE NoCall

\* the call history: last is the call just completed, prev the one before
Record(c) ==
  /\ last' = c
  /\ prev' = last
  /\ first' = Note(prev, last)

Init ==
  /\ store = {}
  /\ last = NoCall
  /\ prev = NoCall
  /\ first = NoCall
  /\ features = {}

\* assets.insert(path, bytes)
Insert(path, bytes) ==
  /\ Cardinality(InsertInto(store, path, bytes)) <= MaxEntries
  /\ store' = InsertInto(store, path, bytes)
  /\ Record(Call("insert", path, bytes, <<>>, "Ok", NoPath, NoBytes, ""))
  /\ UNCHANGED features

\* assets.extend(entries)
Extend(entries) ==
  /\ Cardinality(ExtendInto(store, entries)) <= MaxEntries
  /\ store' = ExtendInto(store, entries)
  /\ Record(Call("extend", NoPath, NoBytes, entries, "Ok", NoPath,
              NoBytes, ""))
  /\ UNCHANGED features

\* the outcome of match_path(path)? followed by .unwrap() of the map's
\* Option for the path it returned: the error of match_path, the bytes of
\* the entry, or a panic when the map has no such key
Unwrap(m, r) ==
  IF r.tag # "Ok" THEN [tag |-> r.tag, out |-> NoBytes]
  ELSE IF ContainsKey(m, r.path)
  THEN [tag |-> "Ok", out |-> HashMapGet(m, r.path)]
  ELSE [tag |-> "Panic", out |-> NoBytes]

\* assets.get(path)
Get(path) ==
  /\ \E r \in MatchPath(store, path) :
       Record(Call("get", path, NoBytes, <<>>, Unwrap(store, r).tag, r.path,
                   Unwrap(store, r).out, ""))
  /\ UNCHANGED <<store, features>>

\* assets.remove(path)
Remove(path) ==
  /\ \E r \in MatchPath(store, path) :
       /\ store' = IF r.tag = "Ok" THEN HashMapRemove(store, r.path)
                   ELSE store
       /\ Record(Call("remove", path, NoBytes, <<>>, Unwrap(store, r).tag,
                      r.path, Unwrap(store, r).out, ""))
  /\ UNCHANGED features

(* -------------------------------------------------------------- dispatch *)
Features == {"gltf", "obj", "vol"}

RECURSIVE LastIndexOf(_, _)
\* the last position of character c in s, 0 when there is none
LastIndexOf(s, c) ==
  IF s = <<>> THEN 0
  ELSE IF s[Len(s)] = c THEN Len(s)
  ELSE LastIndexOf(SubSeq(s, 1, Len(s) - 1), c)

\* Path::file_name of a path without a trailing separator
FileName(k) == SubSeq(k, LastIndexOf(k, "/") + 1, Len(k))

\* path.extension().map(|e| e.to_str().unwrap()).unwrap_or(""): the part of
\* the file name after its last '.', unless the name has none or starts
\* with it
Extension(k) ==
  LET name == FileName(k)
      dot == LastIndexOf(name, ".")
  IN IF dot <= 1 THEN <<>> ELSE SubSeq(name, dot + 1, Len(name))

ExtGltf == <<"g", "l", "t", "f">>
ExtGlb == <<"g", "l", "b">>
ExtObj == <<"o", "b", "j">>
ExtVol == <<"v", "o", "l">>

\* the match without its "obj" arm
ModelFormatNoObj(ext) == IF ext \in {ExtGltf, ExtGlb} THEN "gltf" ELSE ""

\* the match that takes "OBJ" for "obj"
ModelFormatIgnoreCase(ext) ==
  IF ext \in {ExtGltf, ExtGlb} THEN "gltf"
  ELSE IF ext \in {ExtObj, <<"O", "B", "J">>} THEN "obj"
  ELSE ""

\* the match of <Model as Deserialize>::deserialize: the format whose
\* branch is taken, "" for the wildcard branch
ModelFormat(ext) ==
  IF ext \in {ExtGltf, ExtGlb} THEN "gltf"
  ELSE IF ext = ExtObj THEN "obj"
  ELSE ""

\* the match of <VoxelGrid as Deserialize>::deserialize
VoxelFormat(ext) == IF ext = ExtVol THEN "vol" ELSE ""

\* gltf::deserialize, obj::deserialize and vol::deserialize: the decoder
\* takes the bytes of the resolved path out of the store and decodes them or
\* fails
Decoder(fmt, key, call) ==
  /\ store' = HashMapRemove(store, key)
  /\ \E tag \in {"Ok", "DecodeError"} :
       Record(Call(call.op, call.path, NoBytes, <<>>, tag, key,
                   HashMapGet(store, key), fmt))

\* a branch that takes the entry out of the store before it finds the
\* decoder missing
BranchRemovesFirst(fmt, key, call) ==
  IF fmt \in features THEN Decoder(fmt, key, call)
  ELSE /\ Record(Call(call.op, call.path, NoBytes, <<>>, "FeatureMissing",
                      key, NoBytes, fmt))
       /\ store' = HashMapRemove(store, key)

\* the branch of a format: its decoder, or FeatureMissing without it
Branch(fmt, key, call) ==
  IF fmt \in features THEN Decoder(fmt, key, call)
  ELSE /\ Record(Call(call.op, call.path, NoBytes, <<>>, "FeatureMissing",
                      key, NoBytes, fmt))
       /\ UNCHANGED store

\* assets.deserialize::<Model>(path)
DeserializeModel(path) ==
  /\ \E r \in MatchPath(store, path) :
       LET call == Call("model", path, NoBytes, <<>>, r.tag, r.path, NoBytes,
                        "")
       IN IF r.tag # "Ok" THEN Record(call) /\ UNCHANGED store
          ELSE IF ModelFormat(Extension(r.path)) # ""
          THEN Branch(ModelFormat(Extension(r.path)), r.path, call)
          ELSE /\ Record(Call("model", path, NoBytes, <<>>,
                              "FailedDeserialize", r.path, NoBytes, ""))
               /\ UNCHANGED store
  /\ UNCHANGED features

\* a deserialize that looks at the extension of the requested path before
\* it resolves the path
DeserializeVoxelExtensionFirst(path) ==
  /\ IF VoxelFormat(Extension(path)) = ""
     THEN Record(Call("voxel", path, NoBytes, <<>>, "FailedDeserialize",
                      path, NoBytes, ""))
     ELSE \E r \in MatchPath(store, path) :
            Record(Call("voxel", path, NoBytes, <<>>, r.tag, r.path, NoBytes,
                        ""))
  /\ UNCHANGED <<store, features>>

\* assets.deserialize::<VoxelGrid>(path)
DeserializeVoxel(path) ==
  /\ \E r \in MatchPath(store, path) :
       LET call == Call("voxel", path, NoBytes, <<>>, r.tag, r.path, NoBytes,
                        "")
       IN IF r.tag # "Ok" THEN Record(call) /\ UNCHANGED store
          ELSE IF VoxelFormat(Extension(r.path)) # ""
          THEN Branch(VoxelFormat(Extension(r.path)), r.path, call)
          ELSE /\ Record(Call("voxel", path, NoBytes, <<>>,
                              "FailedDeserialize", r.path, NoBytes, ""))
               /\ UNCHANGED store
  /\ UNCHANGED features

\* Texture2D::from_bytes: the bytes decode or they do not
FromBytes(bytes) == {"Ok", "DecodeError"}

\* a deserialize that reads the bytes with get
DeserializeTextureGet(path) ==
  /\ \E r \in MatchPath(store, path) :
       \E tag \in (IF Unwrap(store, r).tag = "Ok"
                   THEN FromBytes(Unwrap(store, r).out)
                   ELSE {Unwrap(store, r).tag}) :
         Record(Call("texture", path, NoBytes, <<>>, tag, r.path,
                     Unwrap(store, r).out, ""))
  /\ UNCHANGED <<store, features>>

\* assets.deserialize::<Texture2D>(path)
DeserializeTexture(path) ==
  /\ \E r \in MatchPath(store, path) :
       /\ store' = IF r.tag = "Ok" THEN HashMapRemove(store, r.path)
                   ELSE store
       /\ \E tag \in (IF Unwrap(store, r).tag = "Ok"
                      THEN FromBytes(Unwrap(store, r).out)
                      ELSE {Unwrap(store, r).tag}) :
            Record(Call("texture", path, NoBytes, <<>>, tag, r.path,
                        Unwrap(store, r).out, ""))
  /\ UNCHANGED features

ExtendArgs ==
  UNION {[1..n -> ExtendPaths \X Bytes] : n \in 1..MaxExtend}

Next ==
  \/ \E path \in Paths, bytes \in Bytes : Insert(path, bytes)
  \/ \E entries \in ExtendArgs : Extend(entries)
  \/ \E path \in QueryPaths : Get(path)
  \/ \E path \in QueryPaths : Remove(path)

Spec == Init /\ [][Next]_vars

\* the dispatch of deserialize, for every build of the crate
InitDispatch ==
  /\ store = {}
  /\ last = NoCall
  /\ prev = NoCall
  /\ first = NoCall
  /\ features \in SUBSET Features

NextDispatch ==
  \/ \E path \in DispatchPaths, bytes \in Bytes : Insert(path, bytes)
  \/ \E path \in DispatchQueries : DeserializeModel(path)
  \/ \E path \in DispatchQueries : DeserializeVoxel(path)

SpecDispatch == InitDispatch /\ [][NextDispatch]_vars

\* the build without any decoder and the build with every decoder
Builds == {{}, Features}

\* the paths assets are inserted under before deserialize and get
DeserializePaths == {P_d_a_obj, P_d_a_obj_glb, P_u_unknown, P_v_vol}

\* the paths deserialize and get are called with
DeserializeQueries == DeserializePaths \cup {P_a_obj}

\* deserialize of the three asset types, with get between the calls
InitDeserialize ==
  /\ store = {}
  /\ last = NoCall
  /\ prev = NoCall
  /\ first = NoCall
  /\ features \in Builds

NextDeserialize ==
  \/ \E path \in DeserializePaths, bytes \in Bytes : Insert(path, bytes)
  \/ \E path \in DeserializeQueries : Get(path)
  \/ \E path \in DeserializeQueries : DeserializeTexture(path)
  \/ \E path \in DeserializeQueries : DeserializeModel(path)
  \/ \E path \in DeserializeQueries : DeserializeVoxel(path)

SpecDeserialize == InitDeserialize /\ [][NextDeserialize]_vars

(* ---------------------------------------------------------------- claims *)
HasBackslash(p) == \E i \in 1..Len(p) : p[i] = BS

\* the keys of the store when the last call started
KeysBefore ==
  IF /\ last.op \in {"remove", "texture", "model", "voxel"}
     /\ last.tag \in {"Ok", "DecodeError"}
  THEN Keys(store) \cup {last.key}
  ELSE Keys(store)

\* the keys of the store that contain the pattern of path q
Matching(q) == {k \in Keys(store) : Contains(k, Pattern(q))}

\* insert(P, _) was followed by op(P)
InsertThen(op) ==
  /\ prev.op = "insert"
  /\ last.op = op
  /\ last.path = prev.path

\* insert(P, _) was followed by mid(P) and then by get(P)
InsertThenThenGet(mid) ==
  /\ first.op = "insert"
  /\ prev.op = mid
  /\ prev.path = first.path
  /\ last.op = "get"
  /\ last.path = prev.path

\* C1: immediately after insert(P, B), get(P) returns B and remove(P)
\* returns B, whatever else the store holds and whether or not P contains
\* backslashes.
C1_InsertThenGetOrRemoveReturnsB ==
  (InsertThen("get") \/ InsertThen("remove"))
    => (last.tag = "Ok" /\ last.out = prev.bytes)

\* C2 as stated: after insert(P, B) and remove(P), get(P) fails with
\* NotLoaded.
C2_GetAfterRemoveFails ==
  InsertThenThenGet("remove") => last.tag = "NotLoaded"

\* C2, amended: after insert(P, B) and remove(P), get(P) fails with NotLoaded
\* exactly when no remaining key contains the pattern of P; otherwise it
\* returns the bytes of a remaining key that contains it, and never
\* resolves to the key remove(P) took out.
C2_GetAfterRemoveFailsUnlessContained ==
  InsertThenThenGet("remove") =>
    /\ prev.tag = "Ok"
    /\ (last.tag = "NotLoaded") <=> (Matching(last.path) = {})
    /\ last.tag = "NotLoaded" => last.key = last.path
    /\ last.tag = "Ok" =>
         /\ last.key \in Matching(last.path)
         /\ last.key # prev.key
         /\ <<last.key, last.out>> \in store

C2_Witness ==
  /\ InsertThenThenGet("remove")
  /\ HasBackslash(last.path)
  /\ last.tag = "NotLoaded"
  /\ store # {}

\* C3: every key of the store is in normalized form (has no backslash).
C3_KeysAreNormalized == \A k \in Keys(store) : ~HasBackslash(k)

\* C4: whenever the normalized form of the input path is an exact key of
\* the store, get and remove resolve to that key.
C4_ExactMatchFirst ==
  (last.op \in {"get", "remove"} /\ Replace(last.path) \in KeysBefore)
    => (last.tag = "Ok" /\ last.key = Replace(last.path))

\* C5: insert(P, B1) then insert(P, B2) leaves exactly one entry for the
\* normalized P, and get(P) then returns B2.
C5_SecondInsertWins ==
  InsertThenThenGet("insert") =>
    /\ Cardinality({e \in store : e[1] = Replace(last.path)}) = 1
    /\ last.tag = "Ok"
    /\ last.out = prev.bytes

RECURSIVE InsertEach(_, _)
\* insert(path, bytes) for each pair of entries, in order
InsertEach(m, entries) ==
  IF entries = <<>> THEN m
  ELSE InsertEach(InsertInto(m, Head(entries)[1], Head(entries)[2]),
                  Tail(entries))

\* C6: extend(entries) produces the same store as insert(path, bytes) for
\* each pair of entries in order.
C6_ExtendIsRepeatedInsert ==
  [][last'.op = "extend" => store' = InsertEach(store, last'.entries)]_vars

\* C7: an entry inserted under a path written with backslashes is stored
\* under the forward-slash form and returned by get of that form.
C7_BackslashNormalization ==
  /\ (last.op = "insert")
       => <<Replace(last.path), last.bytes>> \in store
  /\ (/\ prev.op = "insert"
      /\ HasBackslash(prev.path)
      /\ last.op = "get"
      /\ last.path = Replace(prev.path))
       => /\ last.tag = "Ok"
          /\ last.key = last.path
          /\ ~HasBackslash(last.key)
          /\ last.out = prev.bytes

C7_Witness ==
  /\ prev.op = "insert"
  /\ prev.path = P_d_bs_a_obj
  /\ last.op = "get"
  /\ last.path = P_d_a_obj
  /\ last.out = prev.bytes
  /\ Cardinality(store) = 2

\* path is stem + ext
HasStem(path, stem, ext) == path = stem \o ext

\* insert(x + from, _) into a store that then holds nothing else was
\* followed by get(x + to)
AliasCase(from, to) ==
  /\ prev.op = "insert"
  /\ last.op = "get"
  /\ Cardinality(store) = 1
  /\ EndsWith(prev.path, from)
  /\ HasStem(last.path, SubSeq(prev.path, 1, Len(prev.path) - Len(from)), to)

\* C8: with no other entry in the store, insert(x.jpg, B) then get(x.jpeg)
\* returns B, and insert(x.jpeg, B) then get(x.jpg) returns B.
C8_JpegAliasing ==
  (AliasCase(DotJpg, DotJpeg) \/ AliasCase(DotJpeg, DotJpg))
    => (last.tag = "Ok" /\ last.key = Replace(prev.path)
          /\ last.out = prev.bytes)

C8_Witness ==
  /\ AliasCase(DotJpeg, DotJpg)
  /\ last.path = P_x_jpg
  /\ last.key = P_x_jpeg
  /\ last.out = prev.bytes

\* C9 as stated: if an entry K with bytes B has a key that contains Q and no
\* key equals Q, get(Q) returns B.
C9_SubstringReturnsThatEntry ==
  (last.op = "get" /\ last.path \notin Keys(store)) =>
    \A e \in store :
      Contains(e[1], last.path) => (last.tag = "Ok" /\ last.out = e[2])

\* C9, amended: if no key equals Q and some key contains the pattern of Q,
\* get(Q) returns the bytes of one of the keys that contain it (of K, when K
\* is the only one).
C9_SubstringReturnsSomeMatch ==
  (last.op = "get" /\ last.path \notin Keys(store)
     /\ Matching(last.path) # {}) =>
    /\ last.tag = "Ok"
    /\ last.key \in Matching(last.path)
    /\ <<last.key, last.out>> \in store

C9_Witness ==
  /\ last.op = "get"
  /\ last.path = P_a_obj
  /\ last.tag = "Ok"
  /\ last.key = P_d_a_obj
  /\ Matching(last.path) = {P_d_a_obj, P_d_a_obj_glb}

DotObj == <<".", "o", "b", "j">>
DotUnknown == <<".", "u", "n", "k", "n", "o", "w", "n">>
ExtUnknown == <<"u", "n", "k", "n", "o", "w", "n">>

\* the last call was a Model deserialize whose path resolved
ModelResolved == last.op = "model" /\ last.tag # "NotLoaded"

\* the outcome of the "obj" branch: the OBJ decoder ran, or the call failed
\* with FeatureMissing("obj", _) in a build without it
ObjBranch ==
  /\ last.fmt = "obj"
  /\ IF "obj" \in features THEN last.tag \in {"Ok", "DecodeError"}
     ELSE last.tag = "FeatureMissing"

\* C10 as stated: a Model request that resolves is dispatched on the
\* extension of the requested path.
C10_DispatchOnRequestedPath ==
  ModelResolved =>
    /\ EndsWith(last.path, DotObj) => ObjBranch
    /\ EndsWith(last.path, DotUnknown) => last.tag = "FailedDeserialize"

\* C10, amended: a Model request that resolves is dispatched on the
\* extension of the resolved key: "obj" goes to the OBJ decoder, or fails
\* with FeatureMissing("obj", key) without it, and never reaches the glTF
\* decoder; "unknown" fails with FailedDeserialize(key).  The key is the
\* requested path when that is a key of the store.
C10_DispatchOnResolvedKey ==
  ModelResolved =>
    /\ last.key \in KeysBefore
    /\ last.path \in KeysBefore => last.key = last.path
    /\ Extension(last.key) = ExtObj => ObjBranch
    /\ Extension(last.key) = ExtUnknown =>
         (last.tag = "FailedDeserialize" /\ last.fmt = "")

C10_Witness ==
  /\ ModelResolved
  /\ last.path = P_a_obj
  /\ last.key = P_d_a_obj
  /\ last.tag = "FeatureMissing"
  /\ P_d_a_obj_glb \in Keys(store)

\* C12: get("") and remove("") succeed on every non-empty store, return the
\* bytes of the entry of a store with exactly one entry (remove leaving the
\* store empty), and fail with NotLoaded on the empty store.
C12_EmptyPathMatchesAny ==
  [][(last'.op \in {"get", "remove"} /\ last'.path = P_empty) =>
       /\ store = {} => (last'.tag = "NotLoaded" /\ store' = {})
       /\ store # {} =>
            (last'.tag = "Ok" /\ <<last'.key, last'.out>> \in store)
       /\ (Cardinality(store) = 1 /\ last'.op = "remove") => store' = {}
       /\ last'.op = "get" => store' = store]_vars

C12_Witness ==
  /\ last.op = "remove"
  /\ last.path = P_empty
  /\ last.tag = "Ok"
  /\ last.key = P_x_jpeg
  /\ prev.op = "insert"
  /\ last.out = prev.bytes
  /\ store = {}

\* C13: the path match_path returns is a key of the store, so the unwrap()
\* in get and in remove never panics.
C13_ResolvedPathIsAKey ==
  last.op \in {"get", "remove"} =>
    /\ last.tag # "Panic"
    /\ last.tag = "Ok" => last.key \in KeysBefore
    /\ (last.op = "get" /\ last.tag = "Ok") =>
         <<last.key, last.out>> \in store
    /\ (last.op = "remove" /\ last.tag = "Ok") =>
         (last.key \notin Keys(store) /\ last.out \in Bytes)

C13_Witness ==
  /\ last.op = "get"
  /\ last.tag = "Ok"
  /\ last.path = P_a_obj
  /\ last.key = P_d_bs_a_obj
  /\ <<last.key, last.out>> \in store

\* the query as the claim normalizes it: backslashes to slashes, a trailing
\* ".jpeg" shortened by two characters, a trailing ".jpg" by one
NormalizedQuery(q) ==
  LET p == [i \in 1..Len(q) |-> IF q[i] = BS THEN "/" ELSE q[i]]
      n == Len(p)
  IN IF n >= 5 /\ SubSeq(p, n - 4, n) = <<".", "j", "p", "e", "g">>
     THEN SubSeq(p, 1, n - 2)
     ELSE IF n >= 4 /\ SubSeq(p, n - 3, n) = <<".", "j", "p", "g">>
     THEN SubSeq(p, 1, n - 1)
     ELSE p

\* C14: match_path(Q) fails if and only if Q is not a key and no stored key
\* contains the normalized Q; the error then carries Q as given; and a
\* success by fallback returns one of the keys that contain the normalized Q.
C14_MatchPathFailsIffNothingContains ==
  last.op \in {"get", "remove"} =>
    /\ (last.tag = "NotLoaded") <=>
         /\ last.path \notin KeysBefore
         /\ \A k \in KeysBefore : ~Contains(k, NormalizedQuery(last.path))
    /\ last.tag = "NotLoaded" => last.key = last.path
    /\ last.tag # "NotLoaded" => last.tag = "Ok"
    /\ (last.tag = "Ok" /\ last.path \notin KeysBefore) =>
         /\ last.key \in KeysBefore
         /\ Contains(last.key, NormalizedQuery(last.path))

C14_Witness ==
  /\ last.op = "get"
  /\ last.tag = "NotLoaded"
  /\ last.path = P_d_bs_a_obj
  /\ last.key = P_d_bs_a_obj
  /\ Cardinality(store) = 2

\* C15: a remove(Q) that succeeds deletes exactly the entry match_path(Q)
\* resolved to, returns its bytes and leaves every other entry as it was; a
\* remove(Q) that fails leaves the store unchanged; get(Q) never changes the
\* store.
C15_RemoveDeletesOneEntry ==
  [][/\ (last'.op = "remove" /\ last'.tag = "Ok") =>
          /\ <<last'.key, last'.out>> \in store
          /\ store' = store \ {<<last'.key, last'.out>>}
          /\ Cardinality(store') = Cardinality(store) - 1
          /\ Ok(last'.key) \in MatchPath(store, last'.path)
     /\ (last'.op = "remove" /\ last'.tag # "Ok") =>
          (last'.tag = "NotLoaded" /\ store' = store)
     /\ last'.op = "get" => store' = store]_vars

C15_Witness ==
  /\ last.op = "remove"
  /\ last.tag = "Ok"
  /\ last.path = P_a_obj
  /\ last.key = P_d_a_obj
  /\ Keys(store) = {P_d_a_obj_glb}

\* no key of store m resolves query q
Unresolved(m, q) ==
  /\ q \notin Keys(m)
  /\ \A k \in Keys(m) : ~Contains(k, NormalizedQuery(q))

\* C11: a deserialize of a Texture2D, a Model or a VoxelGrid whose path
\* resolves to no entry fails with NotLoaded whatever the extension of the
\* path, invokes no decoder and leaves the store unchanged.
C11_UnresolvedFailsFirst ==
  [][(/\ last'.op \in {"texture", "model", "voxel"}
      /\ Unresolved(store, last'.path)) =>
       /\ last'.tag = "NotLoaded"
       /\ last'.key = last'.path
       /\ last'.fmt = ""
       /\ last'.out = NoBytes
       /\ store' = store]_vars

C11_Witness ==
  /\ last.op = "voxel"
  /\ last.path = P_v_vol
  /\ last.tag = "NotLoaded"
  /\ features = {}
  /\ Keys(store) = {P_u_unknown, P_d_a_obj}

\* the decoder the claim routes an extension to: "" for none
RoutedFormat(op, ext) ==
  IF op = "model" /\ ext \in {<<"g", "l", "t", "f">>, <<"g", "l", "b">>}
  THEN "gltf"
  ELSE IF op = "model" /\ ext = <<"o", "b", "j">> THEN "obj"
  ELSE IF op = "voxel" /\ ext = <<"v", "o", "l">> THEN "vol"
  ELSE ""

\* the last call was a Model or VoxelGrid deserialize whose path resolved
DispatchResolved ==
  last.op \in {"model", "voxel"} /\ last.tag # "NotLoaded"

\* C16: for a request that resolves, the decoder is selected by the
\* extension of the resolved key alone, compared case-sensitively; a
\* recognised extension without its decoder yields FeatureMissing(format,
\* key), every other extension FailedDeserialize(key).
C16_DecoderByExtensionOfKey ==
  DispatchResolved =>
    LET f == RoutedFormat(last.op, Extension(last.key))
    IN /\ last.key \in KeysBefore
       /\ last.fmt = f
       /\ f = "" => last.tag = "FailedDeserialize"
       /\ (f # "" /\ f \in features) => last.tag \in {"Ok", "DecodeError"}
       /\ (f # "" /\ f \notin features) => last.tag = "FeatureMissing"
       /\ last.tag \in {"FailedDeserialize", "FeatureMissing"} =>
            last.key \in Keys(store)

C16_Witness ==
  /\ DispatchResolved
  /\ last.op = "model"
  /\ last.key = P_A_OBJ
  /\ last.tag = "FailedDeserialize"
  /\ "obj" \in features
  /\ P_n \in Keys(store)

\* call c is a Model or VoxelGrid deserialize the dispatch itself rejected
Rejected(c) ==
  /\ c.op \in {"model", "voxel"}
  /\ c.tag \in {"FeatureMissing", "FailedDeserialize"}

C18_TextureConsumesEntry ==
  /\ (last.op = "texture" /\ last.tag # "NotLoaded") =>
       /\ last.tag \in {"Ok", "DecodeError"}
       /\ last.key \notin Keys(store)
       /\ last.out \in Bytes
  /\ (/\ prev.op = "texture"
      /\ prev.tag = "DecodeError"
      /\ last.op = "texture"
      /\ last.path = prev.path) =>
       \/ last.tag = "NotLoaded"
       \/ last.key # prev.key

C18_Witness ==
  /\ prev.op = "texture"
  /\ prev.tag = "DecodeError"
  /\ prev.path = P_a_obj
  /\ prev.key = P_d_a_obj
  /\ last.op = "texture"
  /\ last.path = prev.path
  /\ last.key = P_d_a_obj_glb
  /\ store = {}

====
